---------------------------- MODULE Spec2Model ----------------------------
(***************************************************************************)
(* A model of the LockTab component of Tab Wrangler                        *)
(* (src/app/js/LockTab.tsx): the four Sorters, the sort selection state    *)
(* (active Sorter, persisted key lockTabSortOrder), the ordered tab list   *)
(* and the click / shift-click handler that locks and unlocks tabs.        *)
(*                                                                         *)
(* JavaScript values are encoded as follows.                               *)
(*   - a nullable value is None (null) or Some(x);                         *)
(*   - a number-or-not value is a record [t, v] with t one of "number",    *)
(*     "undefined", "NaN";                                                 *)
(*   - a tab object is a record; two tab objects are the same object iff   *)
(*     the records are equal (the query client hands back the same object  *)
(*     for an unchanged tab).                                              *)
(***************************************************************************)
EXTENDS Integers, Sequences, FiniteSets, TLC

VARIABLES
  lockTabSortOrder,    \* settings.get("lockTabSortOrder"): the persisted key
  sortOrder,           \* React state sortOrder
  currSorter,          \* React state currSorter
  isSortDropdownOpen,  \* React state isSortDropdownOpen
  tabs,                \* data of the ["tabs"] query: None while pending
  tabTimes,            \* state.localStorage.tabTimes
  sortedTabs,          \* the memoised sortedTabs
  lockedIds,           \* the settings store's manually locked ids
  lastSelectedTabRef,  \* lastSelectedTabRef.current
  call,                \* the handler invocation that produced this state
  afterSaveOn          \* whether the invocation before it was handleChangeSaveSortOrder, checked

vars == <<lockTabSortOrder, sortOrder, currSorter, isSortDropdownOpen, tabs,
          tabTimes, sortedTabs, lockedIds, lastSelectedTabRef, call, afterSaveOn>>

---------------------------------------------------------------------------
(* Bounds *)

\* Number of tab objects the browser can report.
NumTabs == 3

\* Largest last-modified timestamp in tabTimes.
MaxTime == 1

---------------------------------------------------------------------------
(* JavaScript values *)

None == <<>>
Some(x) == <<x>>

Num(n) == [t |-> "number", v |-> n]
Undefined == [t |-> "undefined", v |-> 0]
NaN == [t |-> "NaN", v |-> 0]

\* x - y with both operands converted by ToNumber (undefined becomes NaN).
JsSub(x, y) ==
  IF x.t = "number" /\ y.t = "number" THEN Num(x.v - y.v) ELSE NaN

\* x * y, likewise.
JsMul(x, y) ==
  IF x.t = "number" /\ y.t = "number" THEN Num(x.v * y.v) ELSE NaN

\* tabTimes[id]: the entry, or undefined when the object has no such key.
TabTimesGet(tt, id) ==
  IF id \in DOMAIN tt THEN Num(tt[id]) ELSE Undefined

Min(a, b) == IF a <= b THEN a ELSE b
Max(a, b) == IF a >= b THEN a ELSE b

\* Array.prototype.indexOf: the 0-based index of the first element that is x, or -1.
RECURSIVE IndexOfFrom(_, _, _)
IndexOfFrom(arr, x, k) ==
  IF k > Len(arr) THEN -1
  ELSE IF arr[k] = x THEN k - 1
  ELSE IndexOfFrom(arr, x, k + 1)

IndexOf(arr, x) == IndexOfFrom(arr, x, 1)

\* Array.prototype.slice(start, end): 0-based, end exclusive, a negative
\* index counts from the end, both clamped to the array.
Slice(arr, start, end) ==
  LET len == Len(arr)
      from == IF start < 0 THEN Max(len + start, 0) ELSE Min(start, len)
      to == IF end < 0 THEN Max(len + end, 0) ELSE Min(end, len)
  IN IF to <= from THEN <<>> ELSE SubSeq(arr, from + 1, to)

Range(arr) == {arr[k] : k \in 1..Len(arr)}

---------------------------------------------------------------------------
(* Tabs and the settings store's predicates *)

\* The k-th tab object the browser can report: two tabs per window; every
\* third tab has no id yet, and tabs 2, 6, ... are pinned.
Tab(k) ==
  [id |-> IF k % 3 = 0 THEN None ELSE Some(10 + k),
   windowId |-> 1 + ((k - 1) \div 2),
   index |-> (k - 1) % 2,
   pinned |-> (k % 4 = 2)]

AllTabs == {Tab(k) : k \in 1..NumTabs}

AllIds == {t.id[1] : t \in {u \in AllTabs : u.id # None}}

\* settings.isTabManuallyLockable(tab)
isTabManuallyLockable(tab) == ~tab.pinned

\* settings.isTabLocked(tab) with the store's locked ids lk
isTabLocked(tab, lk) ==
  tab.pinned \/ (tab.id # None /\ tab.id[1] \in lk)

---------------------------------------------------------------------------
(* Sorter registry *)

ChronoSorter == [key |-> "chrono"]
ReverseChronoSorter == [key |-> "reverseChrono"]
TabOrderSorter == [key |-> "tabOrder"]
ReverseTabOrderSorter == [key |-> "reverseTabOrder"]

DEFAULT_SORTER == TabOrderSorter
Sorters == <<TabOrderSorter, ReverseTabOrderSorter, ChronoSorter, ReverseChronoSorter>>

\* ChronoSorter.sort(tabA, tabB, tabTimes); tabA and tabB are nullable.
ChronoSorter_sort(tabA, tabB, tt, lk) ==
  IF tabA = None \/ tabB = None THEN Num(0)
  ELSE LET a == tabA[1]
           b == tabB[1]
       IN IF isTabLocked(a, lk) /\ ~isTabLocked(b, lk) THEN Num(1)
          ELSE IF ~isTabLocked(a, lk) /\ isTabLocked(b, lk) THEN Num(-1)
          ELSE LET lastModifiedA == IF a.id = None THEN Num(-1) ELSE TabTimesGet(tt, a.id[1])
                   lastModifiedB == IF b.id = None THEN Num(-1) ELSE TabTimesGet(tt, b.id[1])
               IN JsSub(lastModifiedA, lastModifiedB)

ReverseChronoSorter_sort(tabA, tabB, tt, lk) ==
  JsMul(Num(-1), ChronoSorter_sort(tabA, tabB, tt, lk))

TabOrderSorter_sort(tabA, tabB) ==
  IF tabA = None \/ tabB = None THEN Num(0)
  ELSE IF tabA[1].windowId = tabB[1].windowId THEN Num(tabA[1].index - tabB[1].index)
  ELSE Num(tabA[1].windowId - tabB[1].windowId)

ReverseTabOrderSorter_sort(tabA, tabB) ==
  JsMul(Num(-1), TabOrderSorter_sort(tabA, tabB))

\* sorter.sort(tabA, tabB, tabTimes)
SorterSort(sorter, tabA, tabB, tt, lk) ==
  CASE sorter.key = "chrono" -> ChronoSorter_sort(tabA, tabB, tt, lk)
    [] sorter.key = "reverseChrono" -> ReverseChronoSorter_sort(tabA, tabB, tt, lk)
    [] sorter.key = "tabOrder" -> TabOrderSorter_sort(tabA, tabB)
    [] sorter.key = "reverseTabOrder" -> ReverseTabOrderSorter_sort(tabA, tabB)


---------------------------------------------------------------------------
(* Tab list projection: tabs.slice().sort(currSorter.sort) *)

Sign(n) == IF n < 0 THEN -1 ELSE IF n > 0 THEN 1 ELSE 0

\* What Array.prototype.sort makes of the comparator's result: its sign,
\* NaN counting as +0.
SortCompare(sorter, a, b, tt, lk) ==
  LET v == SorterSort(sorter, Some(a), Some(b), tt, lk)
  IN IF v.t = "number" THEN Sign(v.v) ELSE 0

\* The comparator's verdicts on the values S, as a table (@@ has the
\* table computed once rather than at each lookup).
CompareTable(S, sorter, tt, lk) ==
  [a \in S, b \in S |-> SortCompare(sorter, a, b, tt, lk)] @@ <<>>

\* The language's consistency condition on a comparator with verdicts c
\* (each -1, 0 or 1) over the values S: a value compares equal to itself,
\* b against a is the opposite of a against b, and each of "equal", "below"
\* and "above" is transitive.
ConsistentComparator(S, c) ==
  \A a, b \in S :
    LET ab == c[a, b]
    IN /\ a = b => ab = 0
       /\ ab = -c[b, a]
       /\ \A d \in S : c[b, d] = ab => c[a, d] = ab

\* The stable sorted order of arr under a consistent comparator with
\* verdicts c: an element comes after those that compare below it and after
\* those that compare equal to it and preceded it in arr.
StableSort(arr, c) ==
  LET n == Len(arr)
      rank == [k \in 1..n |->
                 Cardinality({j \in 1..n : \/ c[arr[j], arr[k]] < 0
                                           \/ (c[arr[j], arr[k]] = 0 /\ j < k)})] @@ <<>>
  IN [i \in 1..n |-> arr[CHOOSE k \in 1..n : rank[k] = i - 1]]

ArrayPermutations(arr) ==
  {p \in [1..Len(arr) -> Range(arr)] : Range(p) = Range(arr)}

\* The arrays sort may produce: the stable sorted order under a consistent
\* comparator, an order the implementation picks otherwise.
SortOutcomes(arr, sorter, tt, lk) ==
  LET c == CompareTable(Range(arr), sorter, tt, lk)
  IN IF ConsistentComparator(Range(arr), c)
     THEN {StableSort(arr, c)}
     ELSE ArrayPermutations(arr)

\* The useMemo body for sortedTabs.
ComputeSortedTabs(data, sorter, tt, lk) ==
  IF data = None THEN {<<>>} ELSE SortOutcomes(data[1], sorter, tt, lk)

\* useMemo with dependencies [currSorter, tabTimes, tabs]: the old array is
\* kept unless a dependency changed.
MemoSortedTabs(data, sorter, tt, lk) ==
  IF data = tabs /\ sorter = currSorter /\ tt = tabTimes
  THEN {sortedTabs}
  ELSE ComputeSortedTabs(data, sorter, tt, lk)

---------------------------------------------------------------------------
(* Handler invocations *)

\* A record of one invocation: its op and arguments (sorter, checked, tab,
\* other, selected, multiselect), what it found on entry (persisted: the
\* stored key, active: currSorter, anchor: lastSelectedTabRef.current), and
\* what it computed (tabsToToggle, requests, result).
NoCall ==
  [op |-> "none", sorter |-> None, checked |-> FALSE, tab |-> None,
   other |-> None, selected |-> FALSE, multiselect |-> FALSE,
   persisted |-> None, active |-> None, anchor |-> None,
   tabsToToggle |-> <<>>, requests |-> <<>>, result |-> Undefined]

\* The record of an invocation of op in the current state.
Invocation(op) ==
  [NoCall EXCEPT !.op = op, !.persisted = lockTabSortOrder,
                 !.active = Some(currSorter), !.anchor = lastSelectedTabRef]

\* The invocation that produced the current state was
\* handleChangeSaveSortOrder with the box checked.
SaveOnCall == call.op = "handleChangeSaveSortOrder" /\ call.checked

---------------------------------------------------------------------------
(* Sort selection state *)

\* Values the settings store may hold for lockTabSortOrder at mount: null,
\* a registry key, or a string that is no registry key.
PersistedValues ==
  {None} \cup {Some(Sorters[k].key) : k \in 1..Len(Sorters)} \cup {Some("bogus"), Some("")}

\* Array.prototype.find: the first element satisfying the test, else undefined (None).
RECURSIVE FindSorterFrom(_, _)
FindSorterFrom(key, k) ==
  IF k > Len(Sorters) THEN None
  ELSE IF Sorters[k].key = key THEN Some(Sorters[k])
  ELSE FindSorterFrom(key, k + 1)

\* InitialSorter with the fallback for an unresolved key taking the last
\* Sorter of the registry in place of the default.
InitialSorter_LastOnMiss(order) ==
  LET sorter == IF order = None THEN Some(DEFAULT_SORTER) ELSE FindSorterFrom(order[1], 1)
  IN IF sorter = None THEN Sorters[Len(Sorters)] ELSE sorter[1]

\* The initializer of the currSorter state.
InitialSorter(order) ==
  LET sorter == IF order = None THEN Some(DEFAULT_SORTER) ELSE FindSorterFrom(order[1], 1)
  IN IF sorter = None THEN DEFAULT_SORTER ELSE sorter[1]

\* The component as mounted: the state hooks' initial values.
Mount(persisted) ==
  /\ lockTabSortOrder = persisted
  /\ sortOrder = persisted
  /\ currSorter = InitialSorter(persisted)
  /\ isSortDropdownOpen = FALSE
  /\ tabs = None
  /\ sortedTabs = <<>>
  /\ lastSelectedTabRef = None
  /\ call = [NoCall EXCEPT !.op = "mount", !.persisted = persisted]
  /\ afterSaveOn = FALSE

\* ClickSorterPersisted without the write: the stored key is left as found.
ClickSorterPersisted_NoWrite(persisted, nextSorter) == persisted

\* ClickSorterPersisted without the null test: the key is always written.
ClickSorterPersisted_AlwaysWrite(persisted, nextSorter) == Some(nextSorter.key)

\* The value clickSorter leaves in the settings store.
ClickSorterPersisted(persisted, nextSorter) ==
  IF persisted # None THEN Some(nextSorter.key) ELSE persisted

clickSorter(nextSorter) ==
  /\ IF nextSorter = currSorter
     THEN /\ isSortDropdownOpen' = FALSE
          /\ UNCHANGED <<lockTabSortOrder, currSorter, sortedTabs>>
     ELSE /\ lockTabSortOrder' = ClickSorterPersisted(lockTabSortOrder, nextSorter)
          /\ isSortDropdownOpen' = FALSE
          /\ currSorter' = nextSorter
          /\ sortedTabs' \in MemoSortedTabs(tabs, nextSorter, tabTimes, lockedIds)
  /\ call' = [Invocation("clickSorter") EXCEPT !.sorter = Some(nextSorter)]
  /\ afterSaveOn' = SaveOnCall
  /\ UNCHANGED <<sortOrder, tabs, tabTimes, lockedIds, lastSelectedTabRef>>

\* SaveSortOrderValue with the branches swapped.
SaveSortOrderValue_Swapped(checked, sorter) ==
  IF checked THEN None ELSE Some(sorter.key)

\* SaveSortOrderValue storing the default Sorter's key, not the active one's.
SaveSortOrderValue_DefaultKey(checked, sorter) ==
  IF checked THEN Some(DEFAULT_SORTER.key) ELSE None

\* The value handleChangeSaveSortOrder stores and sets sortOrder to.
SaveSortOrderValue(checked, sorter) ==
  IF checked THEN Some(sorter.key) ELSE None

handleChangeSaveSortOrder(checked) ==
  /\ lockTabSortOrder' = SaveSortOrderValue(checked, currSorter)
  /\ sortOrder' = SaveSortOrderValue(checked, currSorter)
  /\ call' = [Invocation("handleChangeSaveSortOrder") EXCEPT !.checked = checked]
  /\ afterSaveOn' = SaveOnCall
  /\ UNCHANGED <<currSorter, isSortDropdownOpen, tabs, tabTimes, sortedTabs,
                 lockedIds, lastSelectedTabRef>>

toggleSortDropdown ==
  /\ isSortDropdownOpen' = ~isSortDropdownOpen
  /\ call' = Invocation("toggleSortDropdown")
  /\ afterSaveOn' = SaveOnCall
  /\ UNCHANGED <<lockTabSortOrder, sortOrder, currSorter, tabs, tabTimes,
                 sortedTabs, lockedIds, lastSelectedTabRef>>

\* A click on the window; outside says whether it landed outside the dropdown.
handleWindowClick(outside) ==
  /\ isSortDropdownOpen' = IF isSortDropdownOpen /\ outside THEN FALSE ELSE isSortDropdownOpen
  /\ call' = [Invocation("handleWindowClick") EXCEPT !.checked = outside]
  /\ afterSaveOn' = SaveOnCall
  /\ UNCHANGED <<lockTabSortOrder, sortOrder, currSorter, tabs, tabTimes,
                 sortedTabs, lockedIds, lastSelectedTabRef>>

---------------------------------------------------------------------------
(* Range toggle *)

\* ToggleTargets with the slice's end one short.
ToggleTargets_EndShort(sorted, last, tab, multiselect) ==
  IF multiselect /\ last # None
  THEN LET lastSelectedTabIndex == IndexOf(sorted, last[1])
       IN IF lastSelectedTabIndex >= 0
          THEN LET tabIndex == IndexOf(sorted, tab)
               IN Slice(sorted, Min(tabIndex, lastSelectedTabIndex),
                        Max(tabIndex, lastSelectedTabIndex))
          ELSE <<tab>>
  ELSE <<tab>>

\* ToggleTargets without the test that the last selected tab was found.
ToggleTargets_NoFoundTest(sorted, last, tab, multiselect) ==
  IF multiselect /\ last # None
  THEN LET lastSelectedTabIndex == IndexOf(sorted, last[1])
           tabIndex == IndexOf(sorted, tab)
       IN Slice(sorted, Min(tabIndex, lastSelectedTabIndex),
                Max(tabIndex, lastSelectedTabIndex) + 1)
  ELSE <<tab>>

\* tabsToToggle of handleToggleTab: the clicked tab, or with multiselect and
\* a last selected tab that sortedTabs still holds, the slice between them.
ToggleTargets(sorted, last, tab, multiselect) ==
  IF multiselect /\ last # None
  THEN LET lastSelectedTabIndex == IndexOf(sorted, last[1])
       IN IF lastSelectedTabIndex >= 0
          THEN LET tabIndex == IndexOf(sorted, tab)
               IN Slice(sorted, Min(tabIndex, lastSelectedTabIndex),
                        Max(tabIndex, lastSelectedTabIndex) + 1)
          ELSE <<tab>>
  ELSE <<tab>>

\* The settings.lockTab / settings.unlockTab calls of handleToggleTab, in
\* the order made.
RECURSIVE ToggleRequestsOf(_, _)
ToggleRequestsOf(arr, selected) ==
  IF arr = <<>> THEN <<>>
  ELSE LET tab == Head(arr)
           rest == ToggleRequestsOf(Tail(arr), selected)
       IN IF tab.id = None THEN rest
          ELSE IF selected THEN <<[kind |-> "lock", id |-> tab.id]>> \o rest
          ELSE <<[kind |-> "unlock", id |-> tab.id]>> \o rest

\* ToggleRequests without the filter on manual lockability.
ToggleRequests_NoFilter(toToggle, selected) ==
  ToggleRequestsOf(toToggle, selected)

ToggleRequests(toToggle, selected) ==
  ToggleRequestsOf(SelectSeq(toToggle, isTabManuallyLockable), selected)

\* settings.lockTab(id) and settings.unlockTab(id) applied in order to the
\* store's locked ids.
RECURSIVE ApplyRequests(_, _)
ApplyRequests(lk, reqs) ==
  IF reqs = <<>> THEN lk
  ELSE LET r == Head(reqs)
       IN ApplyRequests(IF r.kind = "lock" THEN lk \cup {r.id[1]} ELSE lk \ {r.id[1]},
                        Tail(reqs))

\* LastSelectedAfter moving the reference only when a request was made.
LastSelectedAfter_OnlyIfRequested(tab, requests) ==
  IF requests # <<>> THEN Some(tab) ELSE lastSelectedTabRef

\* lastSelectedTabRef.current after handleToggleTab(tab, ...).
LastSelectedAfter(tab, requests) == Some(tab)

handleToggleTab(tab, selected, multiselect) ==
  LET tabsToToggle == ToggleTargets(sortedTabs, lastSelectedTabRef, tab, multiselect)
      requests == ToggleRequests(tabsToToggle, selected)
  IN /\ lockedIds' = ApplyRequests(lockedIds, requests)
     /\ lastSelectedTabRef' = LastSelectedAfter(tab, requests)
     /\ call' = [Invocation("handleToggleTab") EXCEPT
                  !.tab = Some(tab), !.selected = selected, !.multiselect = multiselect,
                  !.tabsToToggle = tabsToToggle, !.requests = requests]
     /\ afterSaveOn' = SaveOnCall
     /\ UNCHANGED <<lockTabSortOrder, sortOrder, currSorter, isSortDropdownOpen,
                    tabs, tabTimes, sortedTabs>>

---------------------------------------------------------------------------
(* Data arriving from outside the component *)

\* Arrays chrome.tabs.query({}) may resolve to: some of the tabs, window by
\* window in tab-strip order.
QueryResults ==
  {SelectSeq([k \in 1..NumTabs |-> Tab(k)], LAMBDA t : t \in S) : S \in SUBSET AllTabs}

\* Values of state.localStorage.tabTimes: a timestamp for some of the ids.
TabTimesValues ==
  UNION {[S -> 0..MaxTime] : S \in SUBSET AllIds}

\* The ["tabs"] query resolves (first load or refetch) with different data.
TabsQuery(data) ==
  /\ Some(data) # tabs
  /\ tabs' = Some(data)
  /\ sortedTabs' \in MemoSortedTabs(Some(data), currSorter, tabTimes, lockedIds)
  /\ call' = Invocation("tabsQuery")
  /\ afterSaveOn' = SaveOnCall
  /\ UNCHANGED <<lockTabSortOrder, sortOrder, currSorter, isSortDropdownOpen,
                 tabTimes, lockedIds, lastSelectedTabRef>>

\* useSelector delivers a changed tabTimes.
TabTimesChanged(tt) ==
  /\ tt # tabTimes
  /\ tabTimes' = tt
  /\ sortedTabs' \in MemoSortedTabs(tabs, currSorter, tt, lockedIds)
  /\ call' = Invocation("tabTimes")
  /\ afterSaveOn' = SaveOnCall
  /\ UNCHANGED <<lockTabSortOrder, sortOrder, currSorter, isSortDropdownOpen,
                 tabs, lockedIds, lastSelectedTabRef>>

\* One comparison made by a sort: currSorter.sort(tabA, tabB, tabTimes).
SorterCall(sorter, tabA, tabB) ==
  /\ call' = [Invocation("sort") EXCEPT
                  !.sorter = Some(sorter), !.tab = tabA,
                  !.other = tabB,
                  !.result = SorterSort(sorter, tabA, tabB, tabTimes, lockedIds)]
  /\ afterSaveOn' = SaveOnCall
  /\ UNCHANGED <<lockTabSortOrder, sortOrder, currSorter, isSortDropdownOpen,
                 tabs, tabTimes, sortedTabs, lockedIds, lastSelectedTabRef>>

---------------------------------------------------------------------------
(* Specifications *)

SorterSet == Range(Sorters)
NullableTabs == {None} \cup {Some(t) : t \in AllTabs}

\* The whole component.
Init ==
  /\ \E p \in PersistedValues : Mount(p)
  /\ tabTimes \in TabTimesValues
  /\ lockedIds \in SUBSET AllIds

Next ==
  \/ \E s \in SorterSet : clickSorter(s)
  \/ \E checked \in BOOLEAN : handleChangeSaveSortOrder(checked)
  \/ toggleSortDropdown
  \/ \E outside \in BOOLEAN : handleWindowClick(outside)
  \/ \E t \in Range(sortedTabs), selected, multiselect \in BOOLEAN :
       handleToggleTab(t, selected, multiselect)
  \/ \E data \in QueryResults : TabsQuery(data)
  \/ \E tt \in TabTimesValues : TabTimesChanged(tt)

Spec == Init /\ [][Next]_vars

\* The sort selection state alone: the handlers of the sort dropdown, while
\* the tab list is still loading.
InitSort ==
  /\ \E p \in PersistedValues : Mount(p)
  /\ tabTimes = [id \in {} |-> 0]
  /\ lockedIds = {}

NextSort ==
  \/ \E s \in SorterSet : clickSorter(s)
  \/ \E checked \in BOOLEAN : handleChangeSaveSortOrder(checked)
  \/ toggleSortDropdown
  \/ \E outside \in BOOLEAN : handleWindowClick(outside)

SpecSort == InitSort /\ [][NextSort]_vars

\* The tab list and the row clicks, with the sort order not persisted and
\* a timestamp recorded for every id or for the odd ids only.
InitToggle ==
  /\ Mount(None)
  /\ \E S \in {AllIds, {id \in AllIds : id % 2 = 1}} :
       tabTimes = [id \in S |-> id % (MaxTime + 1)]
  /\ lockedIds = {}

NextToggle ==
  \/ \E s \in SorterSet : clickSorter(s)
  \/ \E t \in Range(sortedTabs), selected, multiselect \in BOOLEAN :
       handleToggleTab(t, selected, multiselect)
  \/ \E data \in QueryResults : TabsQuery(data)

SpecToggle == InitToggle /\ [][NextToggle]_vars

\* The comparators as functions: every Sorter applied to every pair of
\* nullable tabs, under every tabTimes and every set of locked ids.
InitCmp ==
  /\ Mount(None)
  /\ tabTimes = [id \in {} |-> 0]
  /\ lockedIds \in SUBSET AllIds

NextCmp ==
  \/ \E s \in SorterSet, tabA, tabB \in NullableTabs : SorterCall(s, tabA, tabB)
  \/ \E tt \in TabTimesValues : TabTimesChanged(tt)

SpecCmp == InitCmp /\ [][NextCmp]_vars

---------------------------------------------------------------------------
(* Properties *)

\* Some Sorter of the registry has this key.
IsRegistryKey(key) == \E s \in SorterSet : s.key = key

\* The 1-based positions of x in arr.
PositionsOf(arr, x) == {k \in 1..Len(arr) : arr[k] = x}

IsToggle == call.op = "handleToggleTab"

\* C1 as stated: in every reachable state, if the persisted key
\* lockTabSortOrder is not null then the active Sorter's key equals it.
C1_PersistedKeyIsActiveKey ==
  lockTabSortOrder # None => currSorter.key = lockTabSortOrder[1]

\* C1 amended: in every reachable state, if the persisted key is not null
\* then the active Sorter's key equals it, or the persisted key is no key of
\* the registry and the active Sorter is the default Sorter.
C1_PersistedKeyIsActiveKeyOrUnresolved ==
  lockTabSortOrder # None =>
    \/ currSorter.key = lockTabSortOrder[1]
    \/ (~IsRegistryKey(lockTabSortOrder[1]) /\ currSorter = DEFAULT_SORTER)

\* A click on another Sorter has just moved the persisted key along.
C1_Witness ==
  /\ call.op = "clickSorter"
  /\ call.persisted # None
  /\ call.sorter # call.active
  /\ lockTabSortOrder # call.persisted
  /\ lockTabSortOrder = Some(currSorter.key)

\* C2: handleChangeSaveSortOrder with the box checked, followed at once by
\* clickSorter(X), leaves the persisted key equal to X.key, whether or not X
\* was the active Sorter.
C2_SaveOnThenClickPersistsClicked ==
  (call.op = "clickSorter" /\ afterSaveOn) =>
    lockTabSortOrder = Some(call.sorter[1].key)

\* Saving was switched on from off, then another Sorter was clicked.
C2_Witness ==
  /\ call.op = "clickSorter"
  /\ afterSaveOn
  /\ call.sorter # call.active
  /\ sortOrder = Some(call.active[1].key)
  /\ lockTabSortOrder = Some(call.sorter[1].key)

\* C3: clickSorter(next) with the persisted key null and next not the active
\* Sorter makes next the active Sorter and leaves the persisted key null.
C3_ClickWhileNotPersistingKeepsNull ==
  (call.op = "clickSorter" /\ call.persisted = None /\ call.sorter # call.active) =>
    (currSorter = call.sorter[1] /\ lockTabSortOrder = None)

\* Another Sorter was clicked while nothing was persisted.
C3_Witness ==
  /\ call.op = "clickSorter"
  /\ call.persisted = None
  /\ call.sorter # call.active
  /\ currSorter = call.sorter[1]
  /\ currSorter # DEFAULT_SORTER
  /\ lockTabSortOrder = None

\* C4: handleChangeSaveSortOrder sets the persisted key to the active
\* Sorter's key when checked and to null when unchecked, and no other
\* invocation (the mount and clickSorter among them) takes the persisted key
\* from null to non-null or back.
C4_OnlySaveSortOrderToggles ==
  IF call.op = "handleChangeSaveSortOrder"
  THEN /\ call.checked => lockTabSortOrder = Some(call.active[1].key)
       /\ ~call.checked => lockTabSortOrder = None
       /\ currSorter = call.active[1]
  ELSE (lockTabSortOrder = None) <=> (call.persisted = None)

\* Saving was switched on from off with a Sorter other than the default active.
C4_Witness ==
  /\ call.op = "handleChangeSaveSortOrder"
  /\ call.checked
  /\ call.persisted = None
  /\ currSorter # DEFAULT_SORTER
  /\ lockTabSortOrder = Some(currSorter.key)

\* C5: at mount the active Sorter is TabOrder when the persisted key is null
\* and when it is no key of the registry, and the Sorter with that key when
\* it is one; in every case the active Sorter is one of the registry's.
C5_MountSelectsSorter ==
  call.op = "mount" =>
    /\ currSorter \in SorterSet
    /\ call.persisted = None => currSorter = TabOrderSorter
    /\ (call.persisted # None /\ ~IsRegistryKey(call.persisted[1])) =>
         currSorter = TabOrderSorter
    /\ (call.persisted # None /\ IsRegistryKey(call.persisted[1])) =>
         currSorter.key = call.persisted[1]

\* The component mounted over the persisted key "bogus".
C5_Witness ==
  /\ call.op = "mount"
  /\ call.persisted = Some("bogus")
  /\ lockTabSortOrder = Some("bogus")
  /\ currSorter = TabOrderSorter

\* C6: in handleToggleTab with multiselect, when the last selected tab is at
\* position i of sortedTabs and the clicked tab at position j, tabsToToggle
\* is the elements of sortedTabs at positions min(i,j) to max(i,j), in list
\* order.
C6_RangeIsContiguousSlice ==
  (IsToggle /\ call.multiselect /\ call.anchor # None) =>
    \A i \in PositionsOf(sortedTabs, call.anchor[1]), j \in PositionsOf(sortedTabs, call.tab[1]) :
      call.tabsToToggle = [k \in 1..(Max(i, j) - Min(i, j) + 1) |-> sortedTabs[Min(i, j) + k - 1]]

\* A shift-click at least two rows above the last selected row.
C6_Witness ==
  /\ IsToggle
  /\ call.multiselect
  /\ call.anchor # None
  /\ \E i \in PositionsOf(sortedTabs, call.anchor[1]), j \in PositionsOf(sortedTabs, call.tab[1]) :
       /\ j + 2 <= i
       /\ Len(call.tabsToToggle) = i - j + 1

\* C7: in handleToggleTab without multiselect, or with no last selected tab,
\* or with a last selected tab that sortedTabs no longer holds, tabsToToggle
\* is the clicked tab alone and every request made is for its id.
C7_NoRangeMeansTargetOnly ==
  (IsToggle /\ (\/ ~call.multiselect
                \/ call.anchor = None
                \/ call.anchor[1] \notin Range(sortedTabs))) =>
    /\ call.tabsToToggle = <<call.tab[1]>>
    /\ \A k \in 1..Len(call.requests) : call.requests[k].id = call.tab[1].id

\* A shift-click, not on the last row, after the last selected tab was closed.
C7_Witness ==
  /\ IsToggle
  /\ call.multiselect
  /\ call.anchor # None
  /\ call.anchor[1] \notin Range(sortedTabs)
  /\ Len(sortedTabs) >= 2
  /\ call.tab[1] # sortedTabs[Len(sortedTabs)]
  /\ call.tabsToToggle = <<call.tab[1]>>

C9_LastSelectedIsLastClicked ==
  [][IF call'.op = "handleToggleTab"
     THEN lastSelectedTabRef' = call'.tab
     ELSE lastSelectedTabRef' = lastSelectedTabRef]_vars

\* A shift-click on a tab that is not manually lockable, with no request
\* made, has moved the reference from another tab to the clicked one.
C9_Witness ==
  /\ IsToggle
  /\ call.multiselect
  /\ call.anchor # None
  /\ call.anchor # call.tab
  /\ ~isTabManuallyLockable(call.tab[1])
  /\ call.requests = <<>>
  /\ lastSelectedTabRef = call.tab

\* The timestamp C10 gives a tab: its tabTimes entry, or -1 when its id is
\* null or has no entry.
C10_Timestamp(tab) ==
  IF tab.id = None \/ tab.id[1] \notin DOMAIN tabTimes THEN -1 ELSE tabTimes[tab.id[1]]

\* The sign C10 gives Chrono's comparison of two tabs.
C10_ChronoSign(a, b) ==
  IF isTabLocked(a, lockedIds) /\ ~isTabLocked(b, lockedIds) THEN 1
  ELSE IF ~isTabLocked(a, lockedIds) /\ isTabLocked(b, lockedIds) THEN -1
  ELSE Sign(C10_Timestamp(a) - C10_Timestamp(b))

\* C10: for non-null tabs a and b, ChronoSorter.sort(a, b, tabTimes) is
\* positive when only a is locked, negative when only b is locked, and
\* otherwise has the sign of ts(a) - ts(b), a tab without timestamp (null
\* id, or no entry in tabTimes) counting as -1; ReverseChronoSorter.sort is
\* the negation.
C10_ChronoOrdersByLockThenTimestamp ==
  (call.op = "sort" /\ call.tab # None /\ call.other # None) =>
    /\ call.sorter = Some(ChronoSorter) =>
         /\ call.result.t = "number"
         /\ Sign(call.result.v) = C10_ChronoSign(call.tab[1], call.other[1])
    /\ call.sorter = Some(ReverseChronoSorter) =>
         /\ call.result.t = "number"
         /\ Sign(call.result.v) = -C10_ChronoSign(call.tab[1], call.other[1])

=============================================================================
